---- MODULE Spec2Model ----
(***************************************************************************)
(* A model of the Gate.io adapter (js/gateio.js): the error classifier,    *)
(* the generic request layer, the request signer, the market catalog       *)
(* builder and the trade / order / deposit-address normalizers.            *)
(*                                                                         *)
(* JavaScript values are tagged records [k |-> type, v |-> payload]; the   *)
(* payload of a JSON number is its decimal text, converted by parseFloat / *)
(* parseInt where the code converts it.  A JSON object is a function from  *)
(* its keys to values.  An outcome of a call is Ok(value) or               *)
(* Throw(kind, message).                                                   *)
(***************************************************************************)
EXTENDS Integers, Sequences, FiniteSets, TLC

VARIABLES
    clock,      \* the wall clock read by nonce (), in the unit of the nonce
    apiKey,     \* this.apiKey  (U when not configured)
    secret,     \* this.secret  (U when not configured)
    nonces,     \* the nonces of the signed requests of this session, in order
    markets,    \* this.markets: the installed catalog (an array), U before loadMarkets
    last        \* the last operation invoked and its outcome

vars == <<clock, apiKey, secret, nonces, markets, last>>

-----------------------------------------------------------------------------
(* Bounds of the model *)

MaxClock == 1       \* the clock advances at most this many units
MaxSigned == 2      \* at most this many requests are signed in a session
MaxPairs == 2       \* at most this many entries in a raw pairs list
MaxTrades == 2      \* at most this many records in a raw trade list

-----------------------------------------------------------------------------
(* JavaScript values *)

U == [k |-> "undefined"]
Null == [k |-> "null"]
S(s) == [k |-> "string", v |-> s]
N(s) == [k |-> "number", v |-> s]
B(s) == [k |-> "boolean", v |-> s]

Ok(v) == [err |-> "none", value |-> v]
Throw(kind, message) == [err |-> kind, msg |-> message]

EmptyObject == [x \in {} |-> U]
Has(o, key) == key \in DOMAIN o

\* x !== undefined && x !== null
hasProps(x) == x.k \notin {"undefined", "null"}

\* o[k] of a JavaScript object: undefined for a key it does not have
prop(o, key) == IF Has(o, key) THEN o[key] ELSE U

\* the truthiness of a value, as "!x" and "if (x)" test it
Truthy(x) ==
    CASE x.k = "undefined" -> FALSE
      [] x.k = "null" -> FALSE
      [] x.k = "boolean" -> x.v = "true"
      [] x.k = "number" -> x.v \notin {"0", "NaN"}
      [] x.k = "string" -> x.v # ""
      [] OTHER -> TRUE

safeString(o, key, default) ==
    LET x == prop(o, key)
    IN IF hasProps(x) THEN S(x.v) ELSE default

-----------------------------------------------------------------------------
(* describe (): the error tables *)

\* the table with the entries of codes 16 and 21 exchanged
exceptionsSwapped ==
    [code \in {"4", "7", "8", "9", "15", "16", "17", "21"} |->
        CASE code \in {"4", "15"} -> "DDoSProtection"
          [] code \in {"7", "8", "9"} -> "NotSupported"
          [] code \in {"17", "21"} -> "OrderNotFound"
          [] OTHER -> "InsufficientFunds"]

exceptions ==
    [code \in {"4", "7", "8", "9", "15", "16", "17", "21"} |->
        CASE code \in {"4", "15"} -> "DDoSProtection"
          [] code \in {"7", "8", "9"} -> "NotSupported"
          [] code \in {"16", "17"} -> "OrderNotFound"
          [] OTHER -> "InsufficientFunds"]

errorCodeNames ==
    [code \in {"1", "2", "3", "4", "5", "6", "7", "8", "9", "10", "11", "12",
               "13", "14", "15", "16", "17", "18", "19", "20", "21"} |->
        CASE code \in {"1", "3"} -> "Invalid request"
          [] code = "2" -> "Invalid version"
          [] code = "4" -> "Too many attempts"
          [] code \in {"5", "6"} -> "Invalid sign"
          [] code \in {"7", "8", "9"} -> "Currency is not supported"
          [] code = "10" -> "Verified failed"
          [] code = "11" -> "Obtaining address failed"
          [] code = "12" -> "Empty params"
          [] code = "13" -> "Internal error, please report to administrator"
          [] code = "14" -> "Invalid user"
          [] code = "15" -> "Cancel order too fast, please wait 1 min and try again"
          [] code = "16" -> "Invalid order id or order is already closed"
          [] code = "17" -> "Invalid orderid"
          [] code = "18" -> "Invalid amount"
          [] code = "19" -> "Not permitted or trade is disabled"
          [] code = "20" -> "Your order size is too small"
          [] OTHER -> "You don't have enough fund"]

-----------------------------------------------------------------------------
(* Response bodies.  A body is the empty string, a text that does not      *)
(* start with "{", a text that starts with "{" and is no JSON, or the text *)
(* of a JSON object.                                                       *)

EmptyBody == [kind |-> "empty"]
TextBody == [kind |-> "text"]
MalformedBody == [kind |-> "malformed"]
JsonBody(o) == [kind |-> "json", json |-> o]

\* handleErrors (code, reason, url, method, headers, body)
handleErrors(body) ==
    IF body.kind = "empty" THEN Ok(U)
    ELSE IF body.kind = "text" THEN Ok(U)
    ELSE IF body.kind = "malformed" THEN Throw("SyntaxError", "")
    ELSE
        LET jsonbodyParsed == body.json
            resultString == safeString(jsonbodyParsed, "result", S(""))
        IN IF resultString # S("false") THEN Ok(U)
           ELSE
               LET errorCode == safeString(jsonbodyParsed, "code", U)
               IN IF errorCode # U /\ errorCode.v \in DOMAIN exceptions
                  THEN LET message ==
                               IF errorCode.v \in DOMAIN errorCodeNames
                               THEN errorCodeNames[errorCode.v]
                               ELSE safeString(jsonbodyParsed, "message",
                                               S("(unknown)")).v
                       IN Throw(exceptions[errorCode.v], message)
                  ELSE Ok(U)

-----------------------------------------------------------------------------
(* Parameter maps.  A parameter object is the sequence of its <<key, value>>*)
(* entries in insertion order; values are texts.                            *)

Keys(m) == {m[i][1] : i \in DOMAIN m}
Get(m, key) == m[CHOOSE i \in DOMAIN m : m[i][1] = key][2]

\* this.omit (params, keys)
omit(m, keys) == SelectSeq(m, LAMBDA p : p[1] \notin keys)

\* this.extend (a, b): the entries of a, overridden by b, then b's new entries
extend(a, b) ==
    [i \in DOMAIN a |->
        IF a[i][1] \in Keys(b) THEN <<a[i][1], Get(b, a[i][1])>> ELSE a[i]]
    \o SelectSeq(b, LAMBDA p : p[1] \notin Keys(a))

\* encodeURIComponent, on the texts of the model
encodeURIComponent(s) ==
    CASE s = "BTC/USDT" -> "BTC%2FUSDT"
      [] s = "r1/77" -> "r1%2F77"
      [] OTHER -> s

\* this.urlencode (object): the "key=value" terms, joined by "&"
urlencode(m) ==
    [i \in DOMAIN m |-> [key |-> encodeURIComponent(m[i][1]),
                         value |-> encodeURIComponent(m[i][2])]]

\* A path is a sequence of segments: a literal text or a {placeholder}
Lit(s) == [k |-> "lit", v |-> s]
Par(s) == [k |-> "param", v |-> s]

\* this.extractParams (path): the names in braces
extractParams(path) == {path[i].v : i \in {j \in DOMAIN path : path[j].k = "param"}}

\* this.implodeParams (path, params): each {key} that params has, replaced
implodeParams(path, params) ==
    [i \in DOMAIN path |->
        IF path[i].k = "param" /\ path[i].v \in Keys(params)
        THEN Lit(Get(params, path[i].v))
        ELSE path[i]]

-----------------------------------------------------------------------------
(* The request signer *)

version == "2"
urls == [public |-> "https://data.gate.io/api", private |-> "https://data.gate.io/api"]

\* this.hmac (request, secret, 'sha512'): a digest determined by its inputs
hmac(request, key, algorithm) == [alg |-> algorithm, key |-> key, msg |-> request]

\* this.nonce (): a reading of the clock
nonce == clock

\* this.checkRequiredCredentials ()
checkRequiredCredentials ==
    IF apiKey = U \/ secret = U
    THEN Throw("AuthenticationError", "requires credentials")
    ELSE Ok(U)

\* sign: the descriptor, or the error raised; drawn lists the nonce it drew
SignedResult(outcome, drawn) == [err |-> outcome.err, out |-> outcome, drawn |-> drawn]

\* sign, public access: the query string appended when there are parameters left
signPublic(url, query, method, headers, body) ==
    SignedResult(
        Ok([url |-> IF Len(query) > 0
                    THEN [url EXCEPT !.query = S(urlencode(query))]
                    ELSE url,
            method |-> method, body |-> body, headers |-> headers]),
        <<>>)

\* the signature computed over the parameters without the nonce
signOverQuery(url, query, method, drawn) ==
    LET request == <<<<"nonce", ToString(drawn)>>>>
        encoded == urlencode(extend(request, query))
        signature == hmac(urlencode(query), secret, "sha512")
    IN SignedResult(
           Ok([url |-> url, method |-> method, body |-> S(encoded),
               headers |-> [Key |-> apiKey, Sign |-> signature,
                            ContentType |-> "application/x-www-form-urlencoded"]]),
           <<drawn>>)

\* sign, private access with the nonce drawn: the body and the headers
signWithNonce(url, query, method, drawn) ==
    LET request == <<<<"nonce", ToString(drawn)>>>>
        encoded == urlencode(extend(request, query))
        signature == hmac(encoded, secret, "sha512")
    IN SignedResult(
           Ok([url |-> url, method |-> method, body |-> S(encoded),
               headers |-> [Key |-> apiKey, Sign |-> signature,
                            ContentType |-> "application/x-www-form-urlencoded"]]),
           <<drawn>>)

\* the nonce drawn before the credentials are checked
signPrivateNonceFirst(url, query, method) ==
    IF checkRequiredCredentials.err # "none"
    THEN SignedResult(checkRequiredCredentials, <<nonce>>)
    ELSE signWithNonce(url, query, method, nonce)

\* sign, private access: the credentials checked, then the nonce drawn
signPrivate(url, query, method) ==
    IF checkRequiredCredentials.err # "none"
    THEN SignedResult(checkRequiredCredentials, <<>>)
    ELSE signWithNonce(url, query, method, nonce)

sign(path, api, method, params, headers, body) ==
    LET prefix == IF api = "private" THEN "private/" ELSE ""
        url == [base |-> urls[api], version |-> version, prefix |-> prefix,
                path |-> implodeParams(path, params), query |-> U]
        query == omit(params, extractParams(path))
    IN IF api = "public"
       THEN signPublic(url, query, method, headers, body)
       ELSE signPrivate(url, query, method)

-----------------------------------------------------------------------------
(* The generic request layer *)

\* what a call did: its outcome, the nonces it drew, the requests it sent
Did(out, drawn, sent) == [out |-> out, drawn |-> drawn, sent |-> sent]

\* the transport: nothing is sent when sign raised; the body of the reply goes
\* through handleErrors, and its parsed JSON is handed back
dispatch(signed, handled, reply) ==
    IF signed.err # "none" THEN Did(signed.out, signed.drawn, 0)
    ELSE IF handled.err # "none" THEN Did(handled, signed.drawn, 1)
    ELSE Did(Ok(reply.json), signed.drawn, 1)

\* fetch2 (path, api, method, params, headers, body)
fetch2(path, api, method, params, headers, body, reply) ==
    dispatch(sign(path, api, method, params, headers, body), handleErrors(reply), reply)

\* the check that rejects the string results only
checkResultStrings(response) ==
    IF Has(response, "result") /\ response["result"].k = "string"
       /\ response["result"].v # "true"
    THEN Throw("ExchangeError", "gateio")
    ELSE Ok(response)

\* the check that rejects the falsy results only
checkResultFalsy(response) ==
    IF Has(response, "result") /\ ~Truthy(response["result"])
    THEN Throw("ExchangeError", "gateio")
    ELSE Ok(response)

\* request: the check of the result field of the response
checkResult(response) ==
    IF Has(response, "result")
    THEN LET result == response["result"]
         IN IF result.k = "undefined" THEN Throw("ExchangeError", "gateio")
            ELSE IF result.k = "string"
            THEN IF result.v # "true" THEN Throw("ExchangeError", "gateio")
                 ELSE Ok(response)
            ELSE IF ~Truthy(result) THEN Throw("ExchangeError", "gateio")
            ELSE Ok(response)
    ELSE Ok(response)

\* request: what follows the await of fetch2
requested(fetched) ==
    IF fetched.out.err # "none" THEN fetched
    ELSE Did(checkResult(fetched.out.value), fetched.drawn, fetched.sent)

\* request (path, api, method, params, headers, body)
request(path, api, method, params, headers, body, reply) ==
    requested(fetch2(path, api, method, params, headers, body, reply))

-----------------------------------------------------------------------------
(* Numbers.  A computed number is a fraction in lowest terms, NaN or U.    *)

RECURSIVE GCD(_, _)
GCD(a, b) == IF b = 0 THEN a ELSE GCD(b, a % b)

Abs(x) == IF x < 0 THEN -x ELSE x
Rat(n, d) == LET g == GCD(Abs(n), d) IN [n |-> n \div g, d |-> d \div g]
Int2Rat(n) == [n |-> n, d |-> 1]
NaN == [k |-> "NaN"]
IsNumber(x) == "n" \in DOMAIN x

Mul(a, b) == IF IsNumber(a) /\ IsNumber(b) THEN Rat(a.n * b.n, a.d * b.d) ELSE NaN
Sub(a, b) ==
    IF IsNumber(a) /\ IsNumber(b) THEN Rat(a.n * b.d - b.n * a.d, a.d * b.d) ELSE NaN
DivInt(a, k) == IF IsNumber(a) THEN Rat(a.n, a.d * k) ELSE NaN

RECURSIVE Pow10(_)
Pow10(e) == IF e = 0 THEN 1 ELSE 10 * Pow10(e - 1)

\* parseFloat / Number () of a text: the number it denotes, NaN for any other text
parseFloat(text) ==
    CASE text = "0" -> Int2Rat(0)
      [] text = "1" -> Int2Rat(1)
      [] text = "2" -> Int2Rat(2)
      [] text = "3" -> Int2Rat(3)
      [] text = "4" -> Int2Rat(4)
      [] text = "0.5" -> Rat(1, 2)
      [] text = "0.2" -> Rat(1, 5)
      [] text = "0.001" -> Rat(1, 1000)
      [] text = "0.0001" -> Rat(1, 10000)
      [] text = "28800" -> Int2Rat(28800)
      [] text = "86400" -> Int2Rat(86400)
      [] OTHER -> NaN

\* asFloat (x): parseFloat of a number or a string, NaN of anything else
asFloat(x) == IF x.k \in {"number", "string"} THEN parseFloat(x.v) ELSE NaN

safeFloat(o, key, default) ==
    LET n == asFloat(prop(o, key)) IN IF IsNumber(n) THEN n ELSE default

\* safeInteger: parseInt, which agrees with parseFloat on the integer texts
safeInteger(o, key, default) ==
    LET n == asFloat(prop(o, key)) IN IF IsNumber(n) /\ n.d = 1 THEN n ELSE default

safeValue(o, key, default) ==
    LET x == prop(o, key) IN IF hasProps(x) THEN x ELSE default

-----------------------------------------------------------------------------
(* The market catalog builder *)

Arr(seq) == [k |-> "array", v |-> seq]

\* id.split ('_'), on the pair ids of the model
split(id) ==
    CASE id = "btc_usdt" -> <<"btc", "usdt">>
      [] id = "bcc_xbt" -> <<"bcc", "xbt">>
      [] id = "ltc_cnyx" -> <<"ltc", "cnyx">>
      [] id = "doge_eth" -> <<"doge", "eth">>
      [] id = "xrp_usdt" -> <<"xrp", "usdt">>

toUpperCase(s) ==
    CASE s = "btc" -> "BTC" [] s = "usdt" -> "USDT" [] s = "bcc" -> "BCC"
      [] s = "xbt" -> "XBT" [] s = "ltc" -> "LTC" [] s = "cnyx" -> "CNYX"
      [] s = "doge" -> "DOGE" [] s = "eth" -> "ETH" [] s = "xrp" -> "XRP"
      [] OTHER -> s

\* this.commonCurrencyCode (currency): the canonical code of an alias
commonCurrencyCode(currency) ==
    CASE currency = "XBT" -> "BTC"
      [] currency = "BCC" -> "BCH"
      [] currency = "DRK" -> "DASH"
      [] OTHER -> currency

\* this.options['limits']['cost']['min']
costMin == [BTC |-> N("0.0001"), ETH |-> N("0.001"), USDT |-> N("1")]

\* the least cost of a market computed without the table
minCostOfProduct(quote, defaultCost) == defaultCost

\* fetchMarkets: the least cost of a market, from the table of the quote currencies
minCostOf(quote, defaultCost) == safeFloat(costMin, quote, defaultCost)

\* the body of the loop of fetchMarkets: the Market of one entry of pairs
marketOf(market) ==
    LET id == CHOOSE key \in DOMAIN market : TRUE
        details == market[id]
        base == commonCurrencyCode(toUpperCase(split(id)[1]))
        quote == commonCurrencyCode(toUpperCase(split(id)[2]))
        symbol == <<base, "/", quote>>
        precision == [amount |-> 8, price |-> details["decimal_places"]]
        amountLimits == [min |-> details["min_amount"], max |-> U]
        priceLimits ==
            [min |-> Rat(1, Pow10(asFloat(details["decimal_places"]).n)), max |-> U]
        defaultCost == Mul(asFloat(amountLimits.min), priceLimits.min)
        minCost == minCostOf(quote, defaultCost)
        costLimits == [min |-> minCost, max |-> U]
        limits == [amount |-> amountLimits, price |-> priceLimits, cost |-> costLimits]
    IN [id |-> id, symbol |-> symbol, base |-> base, quote |-> quote, info |-> market,
        maker |-> DivInt(asFloat(details["fee"]), 100),
        taker |-> DivInt(asFloat(details["fee"]), 100),
        precision |-> precision, limits |-> limits]

\* a response without pairs taken for an empty catalog
marketsOfNone(got) ==
    IF got.out.err # "none" THEN got
    ELSE IF ~Truthy(safeValue(got.out.value, "pairs", U))
    THEN Did(Ok(<<>>), got.drawn, got.sent)
    ELSE Did(Ok([i \in DOMAIN got.out.value["pairs"].v |->
                    marketOf(got.out.value["pairs"].v[i])]),
             got.drawn, got.sent)

\* fetchMarkets: what follows the await of publicGetMarketinfo
marketsOf(got) ==
    IF got.out.err # "none" THEN got
    ELSE IF ~Truthy(safeValue(got.out.value, "pairs", U))
    THEN Did(Throw("ExchangeError", "gateio fetchMarkets got an unrecognized response"),
             got.drawn, got.sent)
    ELSE Did(Ok([i \in DOMAIN got.out.value["pairs"].v |->
                    marketOf(got.out.value["pairs"].v[i])]),
             got.drawn, got.sent)

\* fetchMarkets (): the reply is the exchange's answer to publicGetMarketinfo
fetchMarkets(reply) ==
    marketsOf(request(<<Lit("marketinfo")>>, "public", "GET", <<>>, U, U, reply))

\* loadMarkets: the result of fetchMarkets as the catalog to install
installed(got) ==
    IF got.out.err # "none" THEN got
    ELSE Did(Ok(Arr(got.out.value)), got.drawn, got.sent)

\* loadMarkets (): fetchMarkets () once, its result installed; then a no-op
loadMarkets(reply) ==
    IF markets # U THEN Did(Ok(markets), <<>>, 0)
    ELSE installed(fetchMarkets(reply))

\* this.market (symbol), on a loaded catalog
market(catalog, symbol) ==
    IF symbol.k = "string" /\ \E i \in DOMAIN catalog.v : catalog.v[i].symbol = symbol.v
    THEN Ok(catalog.v[CHOOSE i \in DOMAIN catalog.v : catalog.v[i].symbol = symbol.v])
    ELSE Throw("ExchangeError", "gateio No market symbol")

\* this.currency (code), on a loaded catalog: the base and quote codes
currency(catalog, code) ==
    IF \E i \in DOMAIN catalog.v : code \in {catalog.v[i].base, catalog.v[i].quote}
    THEN Ok([id |-> code, code |-> code])
    ELSE Throw("ExchangeError", "gateio does not have currency code")

\* the outcome of a method: what it returns or raises, the nonces it drew, the
\* requests it sent and the catalog installed when it ends
Call(out, drawn, sent, catalog) ==
    [out |-> out, drawn |-> drawn, sent |-> sent, markets |-> catalog]

\* await this.loadMarkets (): its error ends the method
AfterLoad(loaded, rest) ==
    IF loaded.out.err # "none" THEN Call(loaded.out, <<>>, loaded.sent, markets)
    ELSE rest

\* this.market (symbol) / this.currency (code): its error ends the method
AfterLookup(loaded, found, rest) ==
    IF found.err # "none" THEN Call(found, <<>>, loaded.sent, loaded.out.value)
    ELSE rest

\* the await of the endpoint method: its error ends the method, and a
\* response gives the normalizer's result
AfterRequest(loaded, got, result) ==
    IF got.out.err # "none"
    THEN Call(got.out, got.drawn, loaded.sent + got.sent, loaded.out.value)
    ELSE Call(result, got.drawn, loaded.sent + got.sent, loaded.out.value)

-----------------------------------------------------------------------------
(* The trade normalizers *)

\* this.parse8601 (text): the milliseconds of a date text read as UTC
parse8601(x) ==
    IF x.k # "string" THEN NaN
    ELSE CASE x.v = "1970-01-02 00:00:00" -> Int2Rat(86400000)
           [] x.v = "1970-01-02 08:00:00" -> Int2Rat(115200000)
           [] OTHER -> NaN

\* this.iso8601 (timestamp): the text of a number of milliseconds
iso8601(timestamp) ==
    IF IsNumber(timestamp) THEN [k |-> "string", v |-> <<"iso8601", timestamp>>] ELSE U

parseTrade(trade, m) ==
    LET timestamp == Sub(parse8601(prop(trade, "date")), Int2Rat(8 * 60 * 60 * 1000))
    IN [id |-> prop(trade, "tradeID"),
        info |-> trade,
        timestamp |-> timestamp,
        datetime |-> iso8601(timestamp),
        symbol |-> m.symbol,
        type |-> U,
        side |-> prop(trade, "type"),
        price |-> safeFloat(trade, "rate", U),
        amount |-> safeFloat(trade, "amount", U)]

parseMyTrade(trade, m) ==
    LET ts == Mul(asFloat(prop(trade, "time_unix")), Int2Rat(1000))
    IN [id |-> prop(trade, "tradeID"),
        order |-> prop(trade, "orderNumber"),
        info |-> trade,
        timestamp |-> ts,
        datetime |-> iso8601(ts),
        symbol |-> m.symbol,
        type |-> U,
        side |-> prop(trade, "type"),
        price |-> asFloat(prop(trade, "rate")),
        amount |-> safeFloat(trade, "amount", U)]

Less(a, b) == a.n * b.d < b.n * a.d

\* this.sortBy (array, 'timestamp'): a stable ascending sort
RECURSIVE sortBy(_)
sortBy(array) ==
    IF Len(array) <= 1 THEN array
    ELSE LET sorted == sortBy(SubSeq(array, 1, Len(array) - 1))
             x == array[Len(array)]
             keep == {i \in DOMAIN sorted : ~Less(x.timestamp, sorted[i].timestamp)}
             at == IF keep = {} THEN 0 ELSE CHOOSE i \in keep : \A j \in keep : j <= i
         IN SubSeq(sorted, 1, at) \o <<x>> \o SubSeq(sorted, at + 1, Len(sorted))

\* this.parseTrades (trades, market, since, limit), since and limit undefined:
\* this.parseTrade of every record, sorted by timestamp
parseTrades(trades, m) ==
    sortBy([i \in DOMAIN trades |-> parseTrade(trades[i], m)])

fetchTradesResponse(loaded, m, got) ==
    AfterRequest(loaded, got, Ok(parseTrades(got.out.value["data"].v, m)))

fetchTradesMarket(loaded, m, reply) ==
    AfterLookup(loaded, m,
        fetchTradesResponse(loaded, m.value,
            request(<<Lit("tradeHistory/"), Par("id")>>, "public", "GET",
                    extend(<<<<"id", m.value.id>>>>, <<>>), U, U, reply)))

fetchTradesLoaded(symbol, loaded, reply) ==
    AfterLoad(loaded, fetchTradesMarket(loaded, market(loaded.out.value, symbol), reply))

\* fetchTrades (symbol)
fetchTrades(symbol, loadReply, reply) ==
    fetchTradesLoaded(symbol, loadMarkets(loadReply), reply)

fetchMyTradesResponse(loaded, m, got) ==
    AfterRequest(loaded, got, Ok(parseTrades(got.out.value["trades"].v, m)))

fetchMyTradesMarket(loaded, m, reply) ==
    AfterLookup(loaded, m,
        fetchMyTradesResponse(loaded, m.value,
            request(<<Lit("tradeHistory")>>, "private", "POST",
                    extend(<<<<"currencyPair", m.value.id>>>>, <<>>), U, U, reply)))

fetchMyTradesLoaded(symbol, loaded, reply) ==
    AfterLoad(loaded, fetchMyTradesMarket(loaded, market(loaded.out.value, symbol), reply))

\* fetchMyTrades (symbol): the definition in force, the last one of the class
fetchMyTrades(symbol, loadReply, reply) ==
    IF symbol = U
    THEN Call(Throw("ExchangeError", "gateio fetchMyTrades requires symbol param"),
              <<>>, 0, markets)
    ELSE fetchMyTradesLoaded(symbol, loadMarkets(loadReply), reply)

-----------------------------------------------------------------------------
(* The order normalizer *)

\* the truthiness of a computed number
NumTruthy(x) == IsNumber(x) /\ x.n # 0

\* the fee charged in the quote currency of the market
orderFeeInQuote(m, amount, feePercentage) ==
    IF NumTruthy(feePercentage)
    THEN [currency |-> m.quote, value |-> DivInt(Mul(amount, feePercentage), 100)]
    ELSE U

\* parseOrder: the fee of an order, in the base currency of its market
orderFee(m, amount, feePercentage) ==
    IF NumTruthy(feePercentage)
    THEN [currency |-> m.base, value |-> DivInt(Mul(amount, feePercentage), 100)]
    ELSE U

parseOrder(order, m) ==
    LET timestamp == Mul(safeInteger(order, "timestamp", U), Int2Rat(1000))
        symbol == m.symbol
        initialAmount == safeFloat(order, "initialAmount", U)
        amount == IF ~NumTruthy(initialAmount) THEN safeFloat(order, "amount", U)
                  ELSE initialAmount
        initialRate == safeFloat(order, "initialRate", U)
        price == IF ~NumTruthy(initialRate) THEN safeFloat(order, "rate", U)
                 ELSE initialRate
        filled == safeFloat(order, "filledAmount", U)
        feePercentage == safeFloat(order, "feePercentage", U)
    IN [info |-> order,
        id |-> prop(order, "orderNumber"),
        timestamp |-> timestamp,
        datetime |-> iso8601(timestamp),
        status |-> prop(order, "status"),
        symbol |-> symbol,
        type |-> "limit",
        side |-> prop(order, "type"),
        price |-> price,
        cost |-> U,
        amount |-> amount,
        filled |-> filled,
        average |-> safeFloat(order, "filledRate", U),
        remaining |-> Sub(amount, filled),
        trades |-> U,
        fee |-> orderFee(m, amount, feePercentage)]

fetchOrderResponse(loaded, m, got) ==
    AfterRequest(loaded, got, Ok(parseOrder(got.out.value["order"], m)))

fetchOrderMarket(id, loaded, m, reply) ==
    AfterLookup(loaded, m,
        fetchOrderResponse(loaded, m.value,
            request(<<Lit("getOrder")>>, "private", "POST",
                    extend(<<<<"orderNumber", id>>, <<"currencyPair", m.value.id>>>>, <<>>),
                    U, U, reply)))

fetchOrderLoaded(id, symbol, loaded, reply) ==
    AfterLoad(loaded, fetchOrderMarket(id, loaded, market(loaded.out.value, symbol), reply))

\* fetchOrder (id, symbol)
fetchOrder(id, symbol, loadReply, reply) ==
    fetchOrderLoaded(id, symbol, loadMarkets(loadReply), reply)

\* this.capitalize (side), then the endpoint of 'privatePost' + it
sidePath(side) == IF side = "buy" THEN <<Lit("buy")>> ELSE <<Lit("sell")>>

createOrderResponse(side, amount, loaded, m, got) ==
    AfterRequest(loaded, got,
        Ok(parseOrder(got.out.value @@ [status |-> S("open"), type |-> S(side),
                                        initialAmount |-> amount],
                      m)))

createOrderMarket(side, amount, price, loaded, m, reply) ==
    AfterLookup(loaded, m,
        createOrderResponse(side, amount, loaded, m.value,
            request(sidePath(side), "private", "POST",
                    extend(<<<<"currencyPair", m.value.id>>, <<"rate", price.v>>,
                             <<"amount", amount.v>>>>, <<>>),
                    U, U, reply)))

createOrderLoaded(symbol, side, amount, price, loaded, reply) ==
    AfterLoad(loaded,
        createOrderMarket(side, amount, price, loaded,
                          market(loaded.out.value, symbol), reply))

\* the order placed whatever its type
createOrderAnyType(symbol, type, side, amount, price, loadReply, reply) ==
    createOrderLoaded(symbol, side, amount, price, loadMarkets(loadReply), reply)

\* createOrder (symbol, type, side, amount, price)
createOrder(symbol, type, side, amount, price, loadReply, reply) ==
    IF type = "market"
    THEN Call(Throw("ExchangeError", "gateio allows limit orders only"), <<>>, 0, markets)
    ELSE createOrderLoaded(symbol, side, amount, price, loadMarkets(loadReply), reply)

-----------------------------------------------------------------------------
(* The deposit-address normalizer.  An address text is the sequence of its  *)
(* pieces, "/" and "address" being pieces of their own.                     *)

\* text.indexOf (piece) >= 0
contains(text, piece) == \E i \in DOMAIN text : text[i] = piece

\* text.split ('/'): the parts between the "/" pieces
RECURSIVE splitSlash(_)
splitSlash(text) ==
    IF ~contains(text, "/") THEN <<text>>
    ELSE LET at == CHOOSE i \in DOMAIN text :
                       text[i] = "/" /\ \A j \in 1..(i - 1) : text[j] # "/"
         IN <<SubSeq(text, 1, at - 1)>> \o splitSlash(SubSeq(text, at + 1, Len(text)))

\* text.split ('/', limit)
splitLimit(text, limit) ==
    LET parts == splitSlash(text)
    IN SubSeq(parts, 1, IF Len(parts) < limit THEN Len(parts) ELSE limit)

\* the endpoint of 'privatePost' + method + 'Address'
addressPath(method) ==
    IF method = "New" THEN <<Lit("newAddress")>> ELSE <<Lit("depositAddress")>>

\* queryDepositAddress: the record made of the address read from the response
depositAddress(code, cur, response, addr) ==
    IF addr # U /\ contains(addr.v, "address")
    THEN Throw("InvalidAddress", "gateio queryDepositAddress")
    ELSE IF code = "XRP" /\ addr = U
    THEN Throw("TypeError", "Cannot read property 'split' of undefined")
    ELSE LET parts == splitLimit(addr.v, 2)
             address == IF code = "XRP" THEN S(parts[1]) ELSE addr
             tag == IF code = "XRP" /\ Len(parts) >= 2 THEN S(parts[2]) ELSE U
         IN Ok([currency |-> cur, address |-> address, tag |-> tag,
                status |-> IF address # U THEN "ok" ELSE "none",
                info |-> response])

queryDepositAddressResponse(code, loaded, cur, got) ==
    AfterRequest(loaded, got,
        depositAddress(code, cur, got.out.value, safeString(got.out.value, "addr", U)))

queryDepositAddressCurrency(method, code, loaded, cur, reply) ==
    AfterLookup(loaded, cur,
        queryDepositAddressResponse(code, loaded, cur.value,
            request(addressPath(method), "private", "POST",
                    extend(<<<<"currency", cur.value.id>>>>, <<>>), U, U, reply)))

queryDepositAddressLoaded(method, code, loaded, reply) ==
    AfterLoad(loaded,
        queryDepositAddressCurrency(method, code, loaded,
                                    currency(loaded.out.value, code), reply))

\* queryDepositAddress (method, code)
queryDepositAddress(method, code, loadReply, reply) ==
    queryDepositAddressLoaded(method, code, loadMarkets(loadReply), reply)

\* createDepositAddress (code)
createDepositAddress(code, loadReply, reply) ==
    queryDepositAddress("New", code, loadReply, reply)

\* fetchDepositAddress (code)
fetchDepositAddress(code, loadReply, reply) ==
    queryDepositAddress("Deposit", code, loadReply, reply)

-----------------------------------------------------------------------------
(* The market data methods *)

Add(a, b) ==
    IF IsNumber(a) /\ IsNumber(b) THEN Rat(a.n * b.d + b.n * a.d, a.d * b.d) ELSE NaN

\* a / b; a division by zero gives an infinity, which no input of the model reaches
Div(a, b) ==
    IF ~(IsNumber(a) /\ IsNumber(b)) THEN NaN
    ELSE IF b.n = 0 THEN (IF a.n = 0 THEN NaN ELSE [k |-> "Infinity"])
    ELSE IF b.n < 0 THEN Rat(-(a.n * b.d), a.d * (-b.n))
    ELSE Rat(a.n * b.d, a.d * b.n)

\* this.sum (a, b): the sum of the arguments that are numbers, undefined of none
sum(a, b) ==
    IF IsNumber(a) /\ IsNumber(b) THEN Add(a, b)
    ELSE IF IsNumber(a) THEN a
    ELSE IF IsNumber(b) THEN b
    ELSE U

\* this.milliseconds (): a reading of the clock
milliseconds == Int2Rat(clock)

\* a market that is defined
isMarket(m) == "symbol" \in DOMAIN m

parseTicker(ticker, m) ==
    LET timestamp == milliseconds
        symbol == IF isMarket(m) THEN S(m.symbol) ELSE U
        lastPrice == safeFloat(ticker, "last", U)
        percentage == safeFloat(ticker, "percentChange", U)
        derived == lastPrice # U /\ percentage # U
        relativeChange == DivInt(percentage, 100)
        open == IF derived THEN Div(lastPrice, sum(Int2Rat(1), relativeChange)) ELSE U
        change == IF derived THEN Sub(lastPrice, open) ELSE U
        average == IF derived THEN DivInt(sum(lastPrice, open), 2) ELSE U
    IN [symbol |-> symbol,
        timestamp |-> timestamp,
        datetime |-> iso8601(timestamp),
        high |-> safeFloat(ticker, "high24hr", U),
        low |-> safeFloat(ticker, "low24hr", U),
        bid |-> safeFloat(ticker, "highestBid", U),
        bidVolume |-> U,
        ask |-> safeFloat(ticker, "lowestAsk", U),
        askVolume |-> U,
        vwap |-> U,
        open |-> open,
        close |-> lastPrice,
        last |-> lastPrice,
        previousClose |-> U,
        change |-> change,
        percentage |-> percentage,
        average |-> average,
        baseVolume |-> safeFloat(ticker, "quoteVolume", U),
        quoteVolume |-> safeFloat(ticker, "baseVolume", U),
        info |-> ticker]

fetchTickerResponse(loaded, m, got) ==
    AfterRequest(loaded, got, Ok(parseTicker(got.out.value, m)))

fetchTickerMarket(loaded, m, reply) ==
    AfterLookup(loaded, m,
        fetchTickerResponse(loaded, m.value,
            request(<<Lit("ticker/"), Par("id")>>, "public", "GET",
                    extend(<<<<"id", m.value.id>>>>, <<>>), U, U, reply)))

fetchTickerLoaded(symbol, loaded, reply) ==
    AfterLoad(loaded, fetchTickerMarket(loaded, market(loaded.out.value, symbol), reply))

\* fetchTicker (symbol)
fetchTicker(symbol, loadReply, reply) ==
    fetchTickerLoaded(symbol, loadMarkets(loadReply), reply)

\* fetchTickers: the market of a ticker, by its symbol and then by its id
tickerMarket(catalog, id, symbol) ==
    LET found == {i \in DOMAIN catalog.v :
                      catalog.v[i].id = id \/ catalog.v[i].symbol = symbol}
    IN IF found = {} THEN U
       ELSE IF \E i \in found : catalog.v[i].id = id
       THEN catalog.v[CHOOSE i \in found : catalog.v[i].id = id]
       ELSE catalog.v[CHOOSE i \in found : TRUE]

\* fetchTickers: the body of the loop, the symbol and the Ticker of one id
tickerOf(catalog, tickers, id) ==
    LET base == commonCurrencyCode(toUpperCase(split(id)[1]))
        quote == commonCurrencyCode(toUpperCase(split(id)[2]))
        symbol == <<base, "/", quote>>
    IN [symbol |-> symbol,
        ticker |-> parseTicker(tickers[id], tickerMarket(catalog, id, symbol))]

\* fetchTickers: the result, one Ticker under the symbol of every id
tickersOf(catalog, tickers) ==
    LET entries == {tickerOf(catalog, tickers, id) : id \in DOMAIN tickers}
    IN [symbol \in {e.symbol : e \in entries} |->
            (CHOOSE e \in entries : e.symbol = symbol).ticker]

fetchTickersResponse(loaded, got) ==
    AfterRequest(loaded, got, Ok(tickersOf(loaded.out.value, got.out.value)))

fetchTickersLoaded(loaded, reply) ==
    AfterLoad(loaded,
        fetchTickersResponse(loaded,
            request(<<Lit("tickers")>>, "public", "GET", <<>>, U, U, reply)))

\* fetchTickers ()
fetchTickers(loadReply, reply) ==
    fetchTickersLoaded(loadMarkets(loadReply), reply)

\* this.marketId (symbol): the id of this.market (symbol)
marketId(catalog, symbol) ==
    LET m == market(catalog, symbol)
    IN IF m.err # "none" THEN m ELSE Ok(m.value.id)

\* parseBidsAsks: the price and the amount of every level as numbers
parseBidsAsks(levels) ==
    [i \in DOMAIN levels |-> <<asFloat(levels[i][1]), asFloat(levels[i][2])>>]

\* this.sortBy (levels, 0, descending): a stable sort of levels by their price
RECURSIVE sortLevels(_, _)
sortLevels(levels, descending) ==
    IF Len(levels) <= 1 THEN levels
    ELSE LET sorted == sortLevels(SubSeq(levels, 1, Len(levels) - 1), descending)
             x == levels[Len(levels)]
             keep == {i \in DOMAIN sorted :
                          IF descending THEN ~Less(sorted[i][1], x[1])
                          ELSE ~Less(x[1], sorted[i][1])}
             at == IF keep = {} THEN 0 ELSE CHOOSE i \in keep : \A j \in keep : j <= i
         IN SubSeq(sorted, 1, at) \o <<x>> \o SubSeq(sorted, at + 1, Len(sorted))

\* this.parseOrderBook (orderbook): bids from the highest price, asks from the lowest
parseOrderBook(orderbook) ==
    LET side(key) == IF Has(orderbook, key) /\ orderbook[key].k = "array"
                     THEN parseBidsAsks(orderbook[key].v) ELSE <<>>
    IN [bids |-> sortLevels(side("bids"), TRUE),
        asks |-> sortLevels(side("asks"), FALSE),
        timestamp |-> U, datetime |-> U, nonce |-> U]

fetchOrderBookResponse(loaded, got) ==
    AfterRequest(loaded, got, Ok(parseOrderBook(got.out.value)))

fetchOrderBookMarket(loaded, id, reply) ==
    AfterLookup(loaded, id,
        fetchOrderBookResponse(loaded,
            request(<<Lit("orderBook/"), Par("id")>>, "public", "GET",
                    extend(<<<<"id", id.value>>>>, <<>>), U, U, reply)))

fetchOrderBookLoaded(symbol, loaded, reply) ==
    AfterLoad(loaded,
        fetchOrderBookMarket(loaded, marketId(loaded.out.value, symbol), reply))

\* fetchOrderBook (symbol)
fetchOrderBook(symbol, loadReply, reply) ==
    fetchOrderBookLoaded(symbol, loadMarkets(loadReply), reply)

-----------------------------------------------------------------------------
(* The account methods *)

\* Object.keys (this.currencies): the codes of the bases and quotes of the catalog
currenciesOf(catalog) ==
    {catalog.v[i].base : i \in DOMAIN catalog.v}
        \cup {catalog.v[i].quote : i \in DOMAIN catalog.v}

\* this.account (): an account of zeros
account == [free |-> Int2Rat(0), used |-> Int2Rat(0), total |-> Int2Rat(0)]

\* fetchBalance: the body of the loop, the account of one currency
accountOf(balance, cur) ==
    LET leg(key, default) ==
            IF Has(balance, key) /\ Has(balance[key], cur)
            THEN asFloat(balance[key][cur]) ELSE default
        free == leg("available", account.free)
        used == leg("locked", account.used)
    IN [free |-> free, used |-> used, total |-> sum(free, used)]

\* this.parseBalance (result): the accounts, and their legs under free, used and total
parseBalance(info, accounts) ==
    [info |-> info, accounts |-> accounts,
     free |-> [code \in DOMAIN accounts |-> accounts[code].free],
     used |-> [code \in DOMAIN accounts |-> accounts[code].used],
     total |-> [code \in DOMAIN accounts |-> accounts[code].total]]

\* fetchBalance: the result made of the response
balanceOf(catalog, balance) ==
    LET currencies == currenciesOf(catalog)
        codes == {commonCurrencyCode(cur) : cur \in currencies}
    IN parseBalance(balance,
           [code \in codes |->
                accountOf(balance,
                          CHOOSE cur \in currencies : commonCurrencyCode(cur) = code)])

fetchBalanceResponse(loaded, got) ==
    AfterRequest(loaded, got, Ok(balanceOf(loaded.out.value, got.out.value)))

fetchBalanceLoaded(loaded, reply) ==
    AfterLoad(loaded,
        fetchBalanceResponse(loaded,
            request(<<Lit("balances")>>, "private", "POST", <<>>, U, U, reply)))

\* fetchBalance ()
fetchBalance(loadReply, reply) ==
    fetchBalanceLoaded(loadMarkets(loadReply), reply)

\* this.parseOrders (orders, market, since, limit), since and limit undefined:
\* this.parseOrder of every order, sorted by timestamp; parseOrder reads
\* market['symbol'] and raises on a market that is undefined
parseOrders(orders, m) ==
    IF orders.k # "array"
    THEN Throw("TypeError", "Cannot convert undefined or null to object")
    ELSE IF Len(orders.v) > 0 /\ ~isMarket(m)
    THEN Throw("TypeError", "Cannot read property 'symbol' of undefined")
    ELSE Ok(sortBy([i \in DOMAIN orders.v |-> parseOrder(orders.v[i], m)]))

fetchOpenOrdersResponse(loaded, m, got) ==
    AfterRequest(loaded, got, parseOrders(prop(got.out.value, "orders"), m))

fetchOpenOrdersMarket(loaded, m, reply) ==
    AfterLookup(loaded, m,
        fetchOpenOrdersResponse(loaded, m.value,
            request(<<Lit("openOrders")>>, "private", "POST", <<>>, U, U, reply)))

fetchOpenOrdersLoaded(symbol, loaded, reply) ==
    AfterLoad(loaded,
        fetchOpenOrdersMarket(loaded,
            IF symbol # U THEN market(loaded.out.value, symbol) ELSE Ok(U), reply))

\* fetchOpenOrders (symbol): the definition in force, the last one of the class
fetchOpenOrders(symbol, loadReply, reply) ==
    fetchOpenOrdersLoaded(symbol, loadMarkets(loadReply), reply)

cancelOrderResponse(loaded, got) ==
    AfterRequest(loaded, got, Ok(got.out.value))

cancelOrderMarket(id, loaded, pair, reply) ==
    AfterLookup(loaded, pair,
        cancelOrderResponse(loaded,
            request(<<Lit("cancelOrder")>>, "private", "POST",
                    <<<<"orderNumber", id>>, <<"currencyPair", pair.value>>>>,
                    U, U, reply)))

cancelOrderLoaded(id, symbol, loaded, reply) ==
    AfterLoad(loaded,
        cancelOrderMarket(id, loaded, marketId(loaded.out.value, symbol), reply))

\* cancelOrder (id, symbol)
cancelOrder(id, symbol, loadReply, reply) ==
    cancelOrderLoaded(id, symbol, loadMarkets(loadReply), reply)

\* this.checkAddress (address): an address that is undefined is refused
checkAddress(address) ==
    IF address = U THEN Throw("InvalidAddress", "gateio address is undefined")
    ELSE Ok(address)

toLowerCase(s) ==
    CASE s = "XRP" -> "xrp" [] s = "BTC" -> "btc" [] OTHER -> s

withdrawResponse(loaded, got) ==
    AfterRequest(loaded, got, Ok([info |-> got.out.value, id |-> U]))

withdrawLoaded(code, amount, address, loaded, reply) ==
    AfterLoad(loaded,
        withdrawResponse(loaded,
            request(<<Lit("withdraw")>>, "private", "POST",
                    extend(<<<<"currency", toLowerCase(code)>>, <<"amount", amount.v>>,
                             <<"address", address.v>>>>, <<>>),
                    U, U, reply)))

\* withdraw (currency, amount, address)
withdraw(code, amount, address, loadReply, reply) ==
    IF checkAddress(address).err # "none"
    THEN Call(checkAddress(address), <<>>, 0, markets)
    ELSE withdrawLoaded(code, amount, address, loadMarkets(loadReply), reply)

-----------------------------------------------------------------------------
(* Inputs: the endpoints called and the replies of the exchange *)

Absent == [k |-> "absent"]
Field(name, x) == IF x = Absent THEN EmptyObject ELSE name :> x

\* entries of describe ().api, with parameters as the methods pass them
Endpoints ==
    { [api |-> "public", method |-> "GET", path |-> <<Lit("tickers")>>, params |-> <<>>],
      [api |-> "public", method |-> "GET", path |-> <<Lit("pairs")>>,
       params |-> <<<<"symbol", "BTC/USDT">>>>],
      [api |-> "public", method |-> "GET", path |-> <<Lit("ticker/"), Par("id")>>,
       params |-> <<<<"id", "btc_usdt">>>>],
      [api |-> "public", method |-> "GET", path |-> <<Lit("orderBook/"), Par("id")>>,
       params |-> <<<<"id", "btc_usdt">>, <<"depth", "5">>>>],
      [api |-> "public", method |-> "GET",
       path |-> <<Lit("tradeHistory/"), Par("id"), Lit("/"), Par("tid")>>,
       params |-> <<<<"limit", "10">>, <<"id", "eth_btc">>, <<"tid", "7">>>>],
      [api |-> "private", method |-> "POST", path |-> <<Lit("balances")>>, params |-> <<>>],
      [api |-> "private", method |-> "POST", path |-> <<Lit("getOrder")>>,
       params |-> <<<<"orderNumber", "7">>, <<"currencyPair", "btc_usdt">>>>],
      [api |-> "private", method |-> "POST", path |-> <<Lit("withdraw")>>,
       params |-> <<<<"currency", "xrp">>, <<"amount", "2">>, <<"address", "r1/77">>>>] }

ResultValues ==
    {Absent, S("true"), S("false"), S("error"), B("true"), B("false"), N("0"), Null}
TableCodes == {"4", "7", "8", "9", "15", "16", "17", "21"}
CodeValues ==
    {S(c) : c \in TableCodes} \cup {N("21"), N("0"), S("5"), S("99"), Null, Absent}

Reply(result, code, message) ==
    JsonBody(Field("result", result) @@ Field("code", code) @@ Field("message", message))

\* bodies of JSON objects that signal success or failure
JsonReplies ==
    {Reply(r, c, Absent) : r \in ResultValues, c \in {Absent, S("21")}}
    \cup {Reply(S("false"), c, S("x")) : c \in CodeValues}
    \cup {Reply(B("false"), N("21"), S("x"))}

Bodies == {EmptyBody, TextBody, MalformedBody} \cup JsonReplies

PairEntry(id, places, amount) ==
    id :> [decimal_places |-> N(places), min_amount |-> N(amount), fee |-> N("0.2")]

PairEntries ==
    { PairEntry("btc_usdt", "2", "0.0001"),
      PairEntry("bcc_xbt", "3", "0.001"),
      PairEntry("ltc_cnyx", "0", "1") }

\* the lists of at most n distinct members of a set
RECURSIVE ListsOf(_, _)
ListsOf(set, n) ==
    IF n = 0 THEN {<<>>}
    ELSE LET shorter == ListsOf(set, n - 1)
         IN shorter \cup
            UNION {{Append(l, e) : e \in set \ {l[i] : i \in DOMAIN l}} : l \in shorter}

Success == "result" :> S("true")

\* replies to publicGetMarketinfo
CatalogReplies ==
    {JsonBody(Success @@ ("pairs" :> Arr(l))) : l \in ListsOf(PairEntries, MaxPairs)}
    \cup {JsonBody(Success), JsonBody(Success @@ ("pairs" :> Null)),
          JsonBody(EmptyObject), Reply(S("false"), S("4"), Absent)}

\* the replies loadMarkets may get on the first call of a session
LoadReplies ==
    { JsonBody(Success @@
          ("pairs" :> Arr(<<PairEntry("btc_usdt", "2", "0.0001"),
                            PairEntry("xrp_usdt", "1", "1")>>))),
      JsonBody(Success) }

\* the reply loadMarkets gets: none is awaited once the catalog is installed
LoadRepliesNow == IF markets = U THEN LoadReplies ELSE {JsonBody(Success)}

Sym(base, quote) == S(<<base, "/", quote>>)

PublicTrades ==
    { [tradeID |-> S("1"), date |-> S("1970-01-02 00:00:00"), type |-> S("buy"),
       rate |-> N("3"), amount |-> N("2")],
      [tradeID |-> S("2"), date |-> S("1970-01-02 08:00:00"), type |-> S("sell"),
       rate |-> N("4"), amount |-> N("0.5")] }

PrivateTrades ==
    { [tradeID |-> S("1"), orderNumber |-> S("7"), date |-> S("1970-01-02 08:00:00"),
       time_unix |-> N("86400"), type |-> S("buy"), rate |-> S("3"), amount |-> S("2")],
      [tradeID |-> S("2"), orderNumber |-> S("8"), date |-> S("1970-01-02 00:00:00"),
       time_unix |-> N("28800"), type |-> S("sell"), rate |-> S("4"), amount |-> S("1")] }

SeqsOf(set, n) == UNION {[1..len -> set] : len \in 0..n}

TradeReplies(field, raw) ==
    {JsonBody(Success @@ (field :> Arr(l))) : l \in SeqsOf(raw, MaxTrades)}
    \cup {Reply(S("false"), S("4"), Absent)}

\* raw order records: the initial fields absent, zero or set; the current
\* fields absent or set; the fill and the fee absent, zero or set
RawOrders ==
    { Field("initialAmount", init[1]) @@ Field("initialRate", init[2])
      @@ Field("amount", cur[1]) @@ Field("rate", cur[2])
      @@ Field("filledAmount", fill[1]) @@ Field("feePercentage", fill[2])
      @@ [orderNumber |-> S("7"), status |-> S("open"), type |-> S(fill[3]),
          timestamp |-> S("86400")] :
        init \in {<<Absent, Absent>>, <<S("0"), S("0")>>, <<S("2"), S("3")>>},
        cur \in {<<Absent, Absent>>, <<S("1"), S("4")>>},
        fill \in {<<Absent, Absent, "buy">>, <<S("1"), S("0.2"), "buy">>,
                  <<S("1"), S("0.2"), "sell">>, <<S("0"), N("0"), "sell">>} }

OrderReplies ==
    {JsonBody(Success @@ ("order" :> o)) : o \in RawOrders}
    \cup {Reply(S("false"), S("17"), Absent)}

\* replies to privatePostBuy and privatePostSell
PlacementReplies ==
    { JsonBody(Success @@ [orderNumber |-> N("7")]),
      JsonBody(Success @@ [orderNumber |-> N("7"), rate |-> S("3"),
                           leftAmount |-> S("1"), filledAmount |-> S("1"),
                           filledRate |-> S("3"), feePercentage |-> N("0.2")]),
      Reply(S("false"), S("21"), Absent) }

AddressReplies ==
    { JsonBody(Success),
      JsonBody(Success @@ [addr |-> S(<<"r1", "/", "77">>)]),
      JsonBody(Success @@ [addr |-> S(<<"1abc">>)]),
      JsonBody(Success @@ [addr |-> S(<<"1xrp", "address", "error">>)]),
      Reply(S("false"), S("9"), Absent) }

\* raw tickers
RawTickers ==
    { [last |-> N("3"), percentChange |-> N("0.5"), high24hr |-> N("4"),
       low24hr |-> N("2"), quoteVolume |-> N("2"), baseVolume |-> N("1")],
      [last |-> S("4"), highestBid |-> S("3")] }

\* replies to publicGetTickerId
TickerReplies ==
    {JsonBody(Success @@ t) : t \in RawTickers}
    \cup {JsonBody(Success), Reply(S("false"), S("7"), Absent)}

\* replies to publicGetTickers: tickers under their pair ids
TickersReplies ==
    {JsonBody(("btc_usdt" :> a) @@ ("bcc_xbt" :> b)) : a, b \in RawTickers}
    \cup {JsonBody(EmptyObject), Reply(S("false"), S("4"), Absent)}

Level(price, amount) == <<N(price), N(amount)>>

\* replies to publicGetOrderBookId
BookReplies ==
    { JsonBody(Success @@ [bids |-> Arr(<<Level("2", "1"), Level("3", "2")>>),
                           asks |-> Arr(<<Level("4", "1"), Level("3", "0.5")>>)]),
      JsonBody(Success @@ [asks |-> Arr(<<Level("4", "1")>>)]),
      Reply(S("false"), S("8"), Absent) }

\* replies to privatePostBalances
BalanceReplies ==
    { JsonBody(Success @@ [available |-> [BTC |-> S("2"), USDT |-> S("3")],
                           locked |-> [BTC |-> S("1")]]),
      JsonBody(Success @@ [locked |-> [XRP |-> S("0.5")]]),
      JsonBody(Success),
      Reply(S("false"), S("15"), Absent) }

\* replies to privatePostOpenOrders
OpenOrdersReplies ==
    { JsonBody(Success @@ [orders |-> Arr(<<>>)]),
      JsonBody(Success @@
          [orders |-> Arr(<<[orderNumber |-> S("8"), status |-> S("open"),
                             type |-> S("sell"), timestamp |-> S("86400"),
                             initialAmount |-> S("2"), initialRate |-> S("3"),
                             filledAmount |-> S("1")],
                            [orderNumber |-> S("7"), status |-> S("open"),
                             type |-> S("buy"), timestamp |-> S("28800"),
                             amount |-> S("1"), rate |-> S("4"),
                             filledAmount |-> S("0")]>>)]),
      JsonBody(Success),
      Reply(S("false"), S("16"), Absent) }

\* replies to privatePostCancelOrder: every value of result, with no code, a
\* code of the table and a code outside the table
ResultReplies ==
    {Reply(r, c, Absent) : r \in ResultValues, c \in {Absent, S("21"), S("99")}}
    \cup {Reply(S("false"), N("17"), S("x"))}

\* the replies to one call: a response with the field read, and a failure
CallReplies(field, value) ==
    {JsonBody(Success @@ (field :> value)), Reply(S("false"), S("4"), Absent)}

Credentials ==
    { [apiKey |-> S("key"), secret |-> S("s3cr3t")],
      [apiKey |-> S("key"), secret |-> U],
      [apiKey |-> U, secret |-> U] }

-----------------------------------------------------------------------------
(* The state machine *)

Init ==
    /\ clock = 0
    /\ \E c \in Credentials : apiKey = c.apiKey /\ secret = c.secret
    /\ nonces = <<>>
    /\ markets = U
    /\ last = [op |-> "init"]

\* time passes
Tick ==
    /\ clock < MaxClock
    /\ clock' = clock + 1
    /\ UNCHANGED <<apiKey, secret, nonces, markets, last>>

\* the transport asks the signer for the descriptor of a call
Sign(e) ==
    LET signed == sign(e.path, e.api, e.method, e.params, U, U)
    IN /\ Len(nonces) + Len(signed.drawn) <= MaxSigned
       /\ nonces' = nonces \o signed.drawn
       /\ last' = [op |-> "sign", endpoint |-> e, out |-> signed.out,
                   drawn |-> signed.drawn]
       /\ UNCHANGED <<clock, apiKey, secret, markets>>

\* the transport hands a response body to the classifier
HandleErrors(body) ==
    /\ last' = [op |-> "handleErrors", body |-> body, out |-> handleErrors(body)]
    /\ UNCHANGED <<clock, apiKey, secret, nonces, markets>>

\* a generated endpoint method (publicGetTickers, privatePostBalances) runs request
Request(e, reply) ==
    LET r == request(e.path, e.api, e.method, e.params, U, U, reply)
    IN /\ Len(nonces) + Len(r.drawn) <= MaxSigned
       /\ nonces' = nonces \o r.drawn
       /\ last' = [op |-> "request", api |-> e.api, reply |-> reply, out |-> r.out,
                   drawn |-> r.drawn, sent |-> r.sent]
       /\ UNCHANGED <<clock, apiKey, secret, markets>>

\* fetchMarkets () called on its own: the caller installs nothing
FetchMarkets(reply) ==
    LET got == fetchMarkets(reply)
    IN /\ last' = [op |-> "fetchMarkets", reply |-> reply, out |-> got.out,
                   sent |-> got.sent]
       /\ UNCHANGED <<clock, apiKey, secret, nonces, markets>>

\* a method of the adapter runs to its end
Invoke(name, args, call) ==
    /\ Len(nonces) + Len(call.drawn) <= MaxSigned
    /\ nonces' = nonces \o call.drawn
    /\ markets' = call.markets
    /\ last' = [op |-> name, args |-> args, out |-> call.out, sent |-> call.sent]
    /\ UNCHANGED <<clock, apiKey, secret>>

FetchTrades(symbol, loadReply, reply) ==
    Invoke("fetchTrades", [symbol |-> symbol, reply |-> reply],
           fetchTrades(symbol, loadReply, reply))

FetchMyTrades(symbol, loadReply, reply) ==
    Invoke("fetchMyTrades", [symbol |-> symbol, reply |-> reply],
           fetchMyTrades(symbol, loadReply, reply))

FetchOrder(id, symbol, loadReply, reply) ==
    Invoke("fetchOrder", [id |-> id, symbol |-> symbol, reply |-> reply],
           fetchOrder(id, symbol, loadReply, reply))

CreateOrder(symbol, type, side, amount, price, loadReply, reply) ==
    Invoke("createOrder",
           [symbol |-> symbol, type |-> type, side |-> side, amount |-> amount,
            price |-> price, reply |-> reply],
           createOrder(symbol, type, side, amount, price, loadReply, reply))

CreateDepositAddress(code, loadReply, reply) ==
    Invoke("createDepositAddress", [code |-> code, reply |-> reply],
           createDepositAddress(code, loadReply, reply))

FetchDepositAddress(code, loadReply, reply) ==
    Invoke("fetchDepositAddress", [code |-> code, reply |-> reply],
           fetchDepositAddress(code, loadReply, reply))

FetchTicker(symbol, loadReply, reply) ==
    Invoke("fetchTicker", [symbol |-> symbol, reply |-> reply],
           fetchTicker(symbol, loadReply, reply))

FetchTickers(loadReply, reply) ==
    Invoke("fetchTickers", [reply |-> reply], fetchTickers(loadReply, reply))

FetchOrderBook(symbol, loadReply, reply) ==
    Invoke("fetchOrderBook", [symbol |-> symbol, reply |-> reply],
           fetchOrderBook(symbol, loadReply, reply))

FetchBalance(loadReply, reply) ==
    Invoke("fetchBalance", [reply |-> reply], fetchBalance(loadReply, reply))

FetchOpenOrders(symbol, loadReply, reply) ==
    Invoke("fetchOpenOrders", [symbol |-> symbol, reply |-> reply],
           fetchOpenOrders(symbol, loadReply, reply))

CancelOrder(id, symbol, loadReply, reply) ==
    Invoke("cancelOrder", [id |-> id, symbol |-> symbol, reply |-> reply],
           cancelOrder(id, symbol, loadReply, reply))

Withdraw(code, amount, address, loadReply, reply) ==
    Invoke("withdraw",
           [code |-> code, amount |-> amount, address |-> address, reply |-> reply],
           withdraw(code, amount, address, loadReply, reply))

PublicTradeReplies == TradeReplies("data", PublicTrades)
PrivateTradeReplies == TradeReplies("trades", PrivateTrades)

\* the signer, the classifier and the request layer
NextRequests ==
    \/ Tick
    \/ \E e \in Endpoints : Sign(e)
    \/ \E body \in Bodies : HandleErrors(body)
    \/ \E e \in {x \in Endpoints : Len(x.params) = 0}, reply \in JsonReplies :
           /\ e.api = "private" => reply \in {Reply(S("true"), Absent, Absent),
                                                Reply(S("false"), S("99"), S("x")),
                                                Reply(S("false"), S("21"), S("x"))}
           /\ Request(e, reply)

\* the methods of the adapter with their normalizers
NextMethods ==
    \/ Tick
    \/ \E reply \in CatalogReplies : FetchMarkets(reply)
    \/ \E symbol \in {Sym("BTC", "USDT"), Sym("ETH", "BTC")}, loadReply \in LoadRepliesNow,
          reply \in PublicTradeReplies :
           FetchTrades(symbol, loadReply, reply)
    \/ \E symbol \in {U, Sym("BTC", "USDT")}, loadReply \in LoadRepliesNow,
          reply \in PrivateTradeReplies :
           FetchMyTrades(symbol, loadReply, reply)
    \/ \E loadReply \in LoadRepliesNow, reply \in OrderReplies :
           FetchOrder("7", Sym("XRP", "USDT"), loadReply, reply)
    \/ \E type \in {"limit", "market"}, side \in {"buy", "sell"},
          loadReply \in LoadRepliesNow, reply \in PlacementReplies :
           CreateOrder(Sym("BTC", "USDT"), type, side, N("2"), N("3"), loadReply, reply)
    \/ \E code \in {"XRP", "BTC"}, loadReply \in LoadRepliesNow, reply \in AddressReplies :
           CreateDepositAddress(code, loadReply, reply)
    \/ \E code \in {"XRP", "BTC"}, loadReply \in LoadRepliesNow, reply \in AddressReplies :
           FetchDepositAddress(code, loadReply, reply)

\* the methods of market data and of the account
NextOthers ==
    \/ \E symbol \in {Sym("BTC", "USDT"), Sym("ETH", "BTC")}, loadReply \in LoadRepliesNow,
          reply \in TickerReplies :
           FetchTicker(symbol, loadReply, reply)
    \/ \E loadReply \in LoadRepliesNow, reply \in TickersReplies :
           FetchTickers(loadReply, reply)
    \/ \E loadReply \in LoadRepliesNow, reply \in BookReplies :
           FetchOrderBook(Sym("XRP", "USDT"), loadReply, reply)
    \/ \E loadReply \in LoadRepliesNow, reply \in BalanceReplies :
           FetchBalance(loadReply, reply)
    \/ \E symbol \in {U, Sym("BTC", "USDT")}, loadReply \in LoadRepliesNow,
          reply \in OpenOrdersReplies :
           FetchOpenOrders(symbol, loadReply, reply)
    \/ \E loadReply \in LoadRepliesNow, reply \in ResultReplies :
           CancelOrder("7", Sym("BTC", "USDT"), loadReply, reply)
    \/ \E address \in {U, S("r1/77")}, loadReply \in LoadRepliesNow,
          reply \in CallReplies("message", S("Success")) :
           Withdraw("XRP", N("2"), address, loadReply, reply)

\* the methods of trades, orders and deposit addresses, one response each
NextTrading ==
    \/ \E symbol \in {Sym("BTC", "USDT"), Sym("ETH", "BTC")}, loadReply \in LoadRepliesNow,
          reply \in CallReplies("data", Arr(<<>>)) :
           FetchTrades(symbol, loadReply, reply)
    \/ \E symbol \in {U, Sym("BTC", "USDT")}, loadReply \in LoadRepliesNow,
          reply \in CallReplies("trades", Arr(<<>>)) :
           FetchMyTrades(symbol, loadReply, reply)
    \/ \E loadReply \in LoadRepliesNow,
          reply \in CallReplies("order", [orderNumber |-> S("7"), amount |-> S("1"),
                                          timestamp |-> S("86400")]) :
           FetchOrder("7", Sym("XRP", "USDT"), loadReply, reply)
    \/ \E type \in {"limit", "market"}, loadReply \in LoadRepliesNow,
          reply \in CallReplies("orderNumber", N("7")) :
           CreateOrder(Sym("BTC", "USDT"), type, "buy", N("2"), N("3"), loadReply, reply)
    \/ \E loadReply \in LoadRepliesNow, reply \in CallReplies("addr", S(<<"1abc">>)) :
           CreateDepositAddress("BTC", loadReply, reply)
    \/ \E loadReply \in LoadRepliesNow, reply \in CallReplies("addr", S(<<"1abc">>)) :
           FetchDepositAddress("BTC", loadReply, reply)

\* every method of the adapter
NextCalls == Tick \/ NextTrading \/ NextOthers

Next == NextRequests \/ NextMethods \/ NextCalls

\* every operation, in any order
Spec == Init /\ [][Next]_vars

\* the operations of the signer, the classifier and the request layer
SpecRequests == Init /\ [][NextRequests]_vars

\* the calls of the adapter's methods
SpecMethods == Init /\ [][NextMethods]_vars

\* the calls of every method of the adapter
SpecCalls == Init /\ [][NextCalls]_vars

-----------------------------------------------------------------------------
(* The claims *)

\* C1: handleErrors raises the kind the error-code table gives for a body
\* whose result is the string "false" and whose code is in the table (21
\* InsufficientFunds, 16 and 17 OrderNotFound, 4 and 15 DDoSProtection, 7, 8
\* and 9 NotSupported), and returns without raising for an empty body, a body
\* that does not start with "{" and a body whose result is "true".
C1_ClassifierRaisesMappedKind ==
    last.op = "handleErrors" =>
        LET body == last.body
            kind(code) == CASE code = "21" -> "InsufficientFunds"
                            [] code \in {"16", "17"} -> "OrderNotFound"
                            [] code \in {"4", "15"} -> "DDoSProtection"
                            [] code \in {"7", "8", "9"} -> "NotSupported"
        IN /\ body.kind \in {"empty", "text"} => last.out.err = "none"
           /\ (body.kind = "json" /\ Has(body.json, "result")
               /\ body.json["result"] = S("true")) => last.out.err = "none"
           /\ (body.kind = "json" /\ Has(body.json, "result")
               /\ body.json["result"] = S("false") /\ Has(body.json, "code")
               /\ body.json["code"].k \in {"string", "number"}
               /\ body.json["code"].v \in TableCodes)
              => last.out.err = kind(body.json["code"].v)

C1_Witness ==
    /\ last.op = "handleErrors"
    /\ last.body = Reply(S("false"), S("21"), S("x"))
    /\ last.out.err = "InsufficientFunds"

\* C2: for a public call sign returns no body and no headers and the URL's
\* query string holds exactly the parameters not substituted into the path;
\* for a private call the body is the URL-encoding of the nonce with all the
\* non-path parameters, Sign is the HMAC-SHA512 of that body keyed by the
\* secret, Key is the API key and Content-Type is the URL-encoded form type.
C2_SignerDescriptor ==
    (last.op = "sign" /\ last.out.err = "none") =>
        LET e == last.endpoint
            d == last.out.value
            placeholders == {e.path[j].v : j \in {x \in DOMAIN e.path : e.path[x].k = "param"}}
            rest == {i \in DOMAIN e.params : e.params[i][1] \notin placeholders}
            terms(q) == {<<q[i].key, q[i].value>> : i \in DOMAIN q}
            restTerms == {<<encodeURIComponent(e.params[i][1]),
                            encodeURIComponent(e.params[i][2])>> : i \in rest}
        IN IF e.api = "public"
           THEN /\ d.body = U
                /\ d.headers = U
                /\ IF rest = {} THEN d.url.query = U
                   ELSE /\ d.url.query # U
                        /\ terms(d.url.query.v) = restTerms
                        /\ Len(d.url.query.v) = Cardinality(rest)
           ELSE /\ Len(last.drawn) = 1
                /\ d.body # U
                /\ terms(d.body.v) = restTerms \cup {<<"nonce", ToString(last.drawn[1])>>}
                /\ Len(d.body.v) = Cardinality(rest) + 1
                /\ d.headers.Sign = [alg |-> "sha512", key |-> secret, msg |-> d.body.v]
                /\ d.headers.Key = apiKey
                /\ d.headers.ContentType = "application/x-www-form-urlencoded"

C2_Witness ==
    /\ last.op = "sign"
    /\ last.out.err = "none"
    /\ last.endpoint.api = "private"
    /\ Len(last.out.value.body.v) = 4

\* C3: the nonce of every signed request of a session is strictly greater than
\* the nonce of every earlier signed request.
C3_NonceStrictlyIncreasing ==
    \A i, j \in DOMAIN nonces : i < j => nonces[i] < nonces[j]

C10_NoCredentialsNoRequest ==
    LET missing == apiKey = U \/ secret = U
    IN /\ (last.op = "sign" /\ last.endpoint.api = "private" /\ missing)
          => /\ last.out.err = "AuthenticationError"
             /\ last.drawn = <<>>
             /\ "value" \notin DOMAIN last.out
       /\ (last.op = "request" /\ last.api = "private" /\ missing)
          => /\ last.out.err = "AuthenticationError"
             /\ last.sent = 0
             /\ last.drawn = <<>>
       /\ missing => nonces = <<>>
       /\ (last.op = "sign" /\ last.endpoint.api = "private" /\ last.out.err = "none")
          => /\ last.out.value.headers.Key # U
             /\ last.out.value.headers.Sign.key # U
       /\ (last.op = "sign" /\ last.endpoint.api = "public") => last.out.err = "none"

C10_Witness ==
    /\ last.op = "sign"
    /\ last.endpoint.api = "private"
    /\ apiKey # U
    /\ secret = U
    /\ last.out.err = "AuthenticationError"

\* C4: every record fetchMyTrades returns carries the order id of a raw trade
\* and the timestamp time_unix * 1000 of that trade, with no 8-hour shift, and
\* every record fetchTrades returns has the timestamp of the parse of the raw
\* date less 28,800,000 ms.
C4_MyTradesByMyTradeNormalizer ==
    /\ (last.op = "fetchMyTrades" /\ last.out.err = "none")
       => \A i \in DOMAIN last.out.value :
              LET rec == last.out.value[i]
                  raws == {x \in PrivateTrades : x.tradeID = rec.id}
              IN /\ "order" \in DOMAIN rec
                 /\ \E raw \in raws :
                        /\ rec.order = raw.orderNumber
                        /\ rec.timestamp = Int2Rat(parseFloat(raw.time_unix.v).n * 1000)
    /\ (last.op = "fetchTrades" /\ last.out.err = "none")
       => \A i \in DOMAIN last.out.value :
              LET rec == last.out.value[i]
              IN \E raw \in PublicTrades :
                     /\ rec.id = raw.tradeID
                     /\ rec.timestamp = Int2Rat(parse8601(raw.date).n - 28800000)

\* C5: in every order that fetchOrder and createOrder return, remaining is
\* amount - filled; amount is initialAmount unless that is zero or absent and
\* then the amount field, and price likewise from initialRate and rate; a fee
\* is present only with a feePercentage, its value is amount * feePercentage
\* / 100 and its currency is the base currency of the market on either side.
C5_OrderNormalizer ==
    (last.op \in {"fetchOrder", "createOrder"} /\ last.out.err = "none") =>
        LET o == last.out.value
            reply == last.args.reply.json
            raw == IF last.op = "fetchOrder" THEN reply["order"] ELSE reply
            base == IF last.op = "fetchOrder" THEN "XRP" ELSE "BTC"
            num(name) == IF Has(raw, name) /\ IsNumber(parseFloat(raw[name].v))
                         THEN parseFloat(raw[name].v) ELSE U
            initialAmount == IF last.op = "createOrder" /\ ~Has(raw, "initialAmount")
                             THEN parseFloat(last.args.amount.v)
                             ELSE num("initialAmount")
            zeroOrAbsent(x) == x = U \/ x = Int2Rat(0)
            amount == IF zeroOrAbsent(initialAmount) THEN num("amount") ELSE initialAmount
            price == IF zeroOrAbsent(num("initialRate")) THEN num("rate")
                     ELSE num("initialRate")
            filled == num("filledAmount")
            fp == num("feePercentage")
        IN /\ o.amount = amount
           /\ o.price = price
           /\ o.filled = filled
           /\ IF IsNumber(amount) /\ IsNumber(filled)
              THEN /\ IsNumber(o.remaining)
                   /\ o.remaining.n * amount.d * filled.d
                      = (amount.n * filled.d - filled.n * amount.d) * o.remaining.d
              ELSE o.remaining = NaN
           /\ o.fee # U =>
                  /\ IsNumber(fp)
                  /\ o.fee.currency = base
                  /\ IF IsNumber(amount)
                     THEN /\ IsNumber(o.fee.value)
                          /\ o.fee.value.n * amount.d * fp.d * 100
                             = amount.n * fp.n * o.fee.value.d
                     ELSE o.fee.value = NaN
           /\ (IsNumber(fp) /\ fp.n # 0) => o.fee # U

C5_Witness ==
    /\ last.op = "createOrder"
    /\ last.args.side = "sell"
    /\ last.out.err = "none"
    /\ last.out.value.fee = [currency |-> "BTC", value |-> Rat(1, 250)]
    /\ last.out.value.remaining = Int2Rat(1)

\* C6: fetchMarkets emits one Market for every entry of pairs, in the order of
\* pairs, with symbol = base "/" quote for the upper-cased canonical halves of
\* the pair id, precision.price = decimal_places, limits.price.min =
\* 10^(-decimal_places), and limits.cost.min the table value of a quote BTC,
\* ETH or USDT and amount.min * price.min of any other quote.
C6_MarketCatalog ==
    (last.op = "fetchMarkets" /\ last.out.err = "none") =>
        LET pairs == last.reply.json["pairs"].v
            ms == last.out.value
            halves(id) == CASE id = "btc_usdt" -> <<"BTC", "USDT">>
                            [] id = "bcc_xbt" -> <<"BCH", "BTC">>
                            [] id = "ltc_cnyx" -> <<"LTC", "CNYX">>
            table(quote) == CASE quote = "BTC" -> Rat(1, 10000)
                              [] quote = "ETH" -> Rat(1, 1000)
                              [] quote = "USDT" -> Int2Rat(1)
        IN /\ Len(ms) = Len(pairs)
           /\ \A i \in DOMAIN pairs :
                  LET id == CHOOSE key \in DOMAIN pairs[i] : TRUE
                      details == pairs[i][id]
                      places == parseFloat(details["decimal_places"].v).n
                      least == parseFloat(details["min_amount"].v)
                      m == ms[i]
                  IN /\ m.id = id
                     /\ m.base = halves(id)[1]
                     /\ m.quote = halves(id)[2]
                     /\ m.symbol = <<m.base, "/", m.quote>>
                     /\ m.precision.price = details["decimal_places"]
                     /\ m.limits.price.min.n * Pow10(places) = m.limits.price.min.d
                     /\ IF m.quote \in {"BTC", "ETH", "USDT"}
                        THEN m.limits.cost.min = table(m.quote)
                        ELSE m.limits.cost.min.n * least.d * Pow10(places)
                             = least.n * m.limits.cost.min.d

C6_Witness ==
    /\ last.op = "fetchMarkets"
    /\ last.out.err = "none"
    /\ Len(last.out.value) = 2
    /\ last.out.value[1].symbol = <<"BCH", "/", "BTC">>
    /\ last.out.value[1].limits.cost.min = Rat(1, 10000)
    /\ last.out.value[2].symbol = <<"LTC", "/", "CNYX">>

\* C7, as stated: fetchMarkets fails with ConfigurationError and returns no
\* list when the response lacks the pairs field.
C7_MissingPairsConfigurationError ==
    (last.op = "fetchMarkets" /\ ~Has(last.reply.json, "pairs"))
        => /\ last.out.err = "ConfigurationError"
           /\ "value" \notin DOMAIN last.out

\* C7, amended: when the response lacks the pairs field fetchMarkets returns
\* no list and fails with ExchangeError, or, for a failure response with a
\* code of the error-code table, with the kind the classifier raises.
C7_MissingPairsExchangeError ==
    (last.op = "fetchMarkets" /\ ~Has(last.reply.json, "pairs"))
        => /\ "value" \notin DOMAIN last.out
           /\ last.out.err = IF last.reply = Reply(S("false"), S("4"), Absent)
                             THEN "DDoSProtection" ELSE "ExchangeError"

C7_Witness ==
    /\ last.op = "fetchMarkets"
    /\ last.reply = JsonBody(Success)
    /\ last.sent = 1
    /\ last.out.err = "ExchangeError"

\* C8: with a response received, createDepositAddress and fetchDepositAddress
\* raise InvalidAddress exactly when addr contains "address", and otherwise
\* return a record with status "ok" for an address present and "none" for an
\* address absent; for XRP address and tag are the two parts of addr split on
\* "/", for any other code address is addr and tag is absent.
C8_DepositAddressStatus ==
    (/\ last.op \in {"createDepositAddress", "fetchDepositAddress"}
     /\ apiKey # U /\ secret # U /\ markets # U
     /\ Has(last.args.reply.json, "result")
     /\ last.args.reply.json["result"] = S("true")) =>
        LET response == last.args.reply.json
            addr == IF Has(response, "addr") THEN response["addr"] ELSE U
        IN IF addr # U /\ \E i \in DOMAIN addr.v : addr.v[i] = "address"
           THEN last.out.err = "InvalidAddress"
           ELSE /\ last.out.err = "none"
                /\ last.out.value.status = IF addr # U THEN "ok" ELSE "none"
                /\ IF addr = U
                   THEN last.out.value.address = U /\ last.out.value.tag = U
                   ELSE IF last.args.code = "XRP" /\ addr = S(<<"r1", "/", "77">>)
                   THEN /\ last.out.value.address = S(<<"r1">>)
                        /\ last.out.value.tag = S(<<"77">>)
                   ELSE /\ last.out.value.address = addr
                        /\ last.out.value.tag = U

\* C11, as stated: every call of a method of the adapter sends exactly one
\* request, whatever the state of the session and the arguments.
C11_ExactlyOneRequest ==
    last.op \in {"fetchBalance", "fetchOrderBook", "fetchTicker", "fetchTickers",
                 "fetchTrades", "fetchOrder", "fetchOpenOrders", "fetchMyTrades",
                 "createOrder", "cancelOrder", "fetchDepositAddress",
                 "createDepositAddress", "withdraw"}
        => last.sent = 1

\* C11, amended: a call of a method sends at most one request to its endpoint,
\* after one request for the market catalog when the catalog is not loaded
\* yet; a call that returns normally has sent its endpoint request; a call
\* refused for its arguments sends nothing; a private call without
\* credentials sends no more than the request for the catalog.  The steps
\* checked are the calls: the steps that leave the clock as it is.
C11_RequestsPerCall ==
    [][(clock' = clock /\
        last'.op \in {"fetchBalance", "fetchOrderBook", "fetchTicker", "fetchTickers",
                     "fetchTrades", "fetchOrder", "fetchOpenOrders", "fetchMyTrades",
                     "createOrder", "cancelOrder", "fetchDepositAddress",
                     "createDepositAddress", "withdraw"})
        => LET loads == IF markets = U THEN 1 ELSE 0
               refused == \/ last'.op = "createOrder" /\ last'.args.type = "market"
                          \/ last'.op = "fetchMyTrades" /\ last'.args.symbol = U
                          \/ last'.op = "withdraw" /\ last'.args.address = U
               private == last'.op \notin {"fetchOrderBook", "fetchTicker",
                                           "fetchTickers", "fetchTrades"}
           IN /\ last'.sent <= loads + 1
              /\ refused => last'.sent = 0
              /\ ~refused => last'.sent >= loads
              /\ last'.out.err = "none" => last'.sent = loads + 1
              /\ (~refused /\ private /\ (apiKey = U \/ secret = U))
                 => last'.sent = loads
              /\ markets' # markets => (markets = U /\ last'.sent >= 1)]_vars

C11_Witness ==
    /\ last.op = "cancelOrder"
    /\ last.out.err = "none"
    /\ last.sent = 2
    /\ markets # U

====
